---- MODULE Spec2Model ----
(***************************************************************************)
(* Model of the yt2script multi-user transcription service: the Flask      *)
(* handlers of app.py over the sqlite tables of database.py.               *)
(*                                                                         *)
(* Spec      account requests, approvals and rejections on two worker     *)
(*           threads, interleaving between their database calls.          *)
(* SpecAuth  login, sessions and account administration, the requests     *)
(*           served one after the other.                                  *)
(* SpecPw    login and password change of an administrator and of a user  *)
(*           holding a temporary password.                                *)
(* SpecTr    the /transcribe pipeline on two worker threads, interleaving *)
(*           between its database and external-API calls.                 *)
(* SpecPipe  the /transcribe pipeline, the requests served one after the  *)
(*           other, every external call free to fail.                     *)
(* SpecRead  /transcribe with the routes that read stored transcripts.    *)
(* SpecSplit split_audio on its own.                                      *)
(* SpecGen   generate_temp_password on its own.                           *)
(* SpecAdmins  two administrators disabling and enabling accounts.        *)
(*                                                                         *)
(* The server runs request handlers on concurrent threads; every Database  *)
(* method opens its own connection, so the atomic steps are the single     *)
(* database calls.  A handler that makes several calls is a sequence of    *)
(* steps of one worker, with the handler's locals kept in hs[w].           *)
(***************************************************************************)
EXTENDS Integers, Sequences, FiniteSets, TLC

VARIABLES
    users,        \* table users: row id = index
    requests,     \* table account_requests: row id = index
    transcripts,  \* table transcripts: row id = index
    sessions,     \* ids of the users some client holds a session cookie for
    hs,           \* per worker thread: the handler in progress and its locals
    resp,         \* the response the last step returned, if it returned one
    attempts,     \* RateLimiter.attempts: per key, the attempts still recorded
    files         \* temp directory: the audio files present on disk

vars == <<users, requests, transcripts, sessions, hs, resp, attempts, files>>

(***************************************************************************)
(* Bounds of the model.                                                    *)
(***************************************************************************)
MaxRequests == 2      \* rows account_requests may grow to
MaxLogins == 1        \* successful logins counted per user (last_login stamp)
MaxTranscripts == 2   \* rows transcripts may grow to
MaxLengthMs == 12     \* split_audio on its own: the longest audio, in ms
MaxChunkMs == 5       \* split_audio on its own: the longest chunk, in ms

Workers == {"w1", "w2"}

(***************************************************************************)
(* Passwords are sequences of characters, hashed with a one-way function   *)
(* that check_password_hash inverts only for the same password.            *)
(***************************************************************************)
MIN_LENGTH == 12

UpperChars ==
    {"A", "B", "C", "D", "E", "F", "G", "H", "I", "J", "K", "L", "M", "N",
     "O", "P", "Q", "R", "S", "T", "U", "V", "W", "X", "Y", "Z"}
LowerChars ==
    {"a", "b", "c", "d", "e", "f", "g", "h", "i", "j", "k", "l", "m", "n",
     "o", "p", "q", "r", "s", "t", "u", "v", "w", "x", "y", "z"}
DigitChars ==
    {"0", "1", "2", "3", "4", "5", "6", "7", "8", "9"}
ValidatorSpecialChars ==
    {"!", "@", "#", "$", "%", "^", "&", "*", "(", ")", ",", ".", "?", "\"",
     ":", "{", "}", "|", "<", ">"}

HasChar(password, class) == \E i \in 1..Len(password) : password[i] \in class

\* A validator that accepts every password.
ValidateAny(password) == "ok"

\* PasswordValidator.validate: "ok" or the error message.
Validate(password) ==
    IF Len(password) < MIN_LENGTH
    THEN "Password must be at least 12 characters"
    ELSE IF ~HasChar(password, UpperChars)
    THEN "Password must contain at least one uppercase letter"
    ELSE IF ~HasChar(password, LowerChars)
    THEN "Password must contain at least one lowercase letter"
    ELSE IF ~HasChar(password, DigitChars)
    THEN "Password must contain at least one digit"
    ELSE IF ~HasChar(password, ValidatorSpecialChars)
    THEN "Password must contain at least one special character"
    ELSE "ok"

generate_password_hash(password) == <<"hash", password>>

check_password(password_hash, password) ==
    password_hash = generate_password_hash(password)

\* The admin's password, set when the admin account was created.
PwAdmin == <<"A", "d", "m", "1", "n", "!", "p", "a", "s", "s", "w", "d">>
\* A password a user may choose.
PwNew == <<"N", "e", "w", "p", "a", "s", "s", "w", "o", "r", "d", "7", "#">>
\* "short1!": seven characters.
PwShort == <<"s", "h", "o", "r", "t", "1", "!">>
\* An output of generate_temp_password(): 16 characters, one of each class
\* first drawn, the rest from all classes, then shuffled.
PwTemp == <<"b", "T", "3", "a", "$", "c", "9", "Z", "e", "d", "2", "m", "P",
            "0", "n", "t">>

generate_temp_password == {PwTemp}

\* The passwords tried at login, and given to change-password.
PasswordInputs == {<<>>, PwAdmin, PwNew, PwTemp}
CurrentPasswordInputs == {<<>>, PwAdmin, PwTemp}
NewPasswordInputs == {<<>>, PwShort, PwNew}

(***************************************************************************)
(* E-mail addresses.                                                       *)
(***************************************************************************)
AdminEmail == "root@x.io"

\* str.strip().lower() on the addresses used (none has outer blanks).
StripLower(email) ==
    CASE email = "A@x.io" -> "a@x.io"
      [] OTHER -> email

\* EmailValidator.validate: "ok" or the error message.
EmailValidate(email) ==
    IF email = "" THEN "Email is required"
    ELSE IF StripLower(email) \notin {"a@x.io", "root@x.io",
                                      "t@mailinator.com"}
    THEN "Invalid email format"
    ELSE IF StripLower(email) = "t@mailinator.com"
    THEN "Disposable email addresses are not allowed"
    ELSE "ok"

\* The addresses the login form is tried with.
LoginEmailInputs == {"", "A@x.io", "root@x.io"}

\* The addresses accounts are requested for.
RequestEmailInputs == {"", "nope", "t@mailinator.com", "a@x.io", "A@x.io"}

(***************************************************************************)
(* auth.RateLimiter.  attempts[key] is the list of recorded attempts of    *)
(* the key, kept by its length: check_rate_limit first drops the entries   *)
(* older than the window (here: window_elapses has dropped them), refuses  *)
(* when max_attempts remain, and records the call otherwise.               *)
(***************************************************************************)
LOGIN_MAX_ATTEMPTS == 5
REQUEST_MAX_ATTEMPTS == 3

LoginKey(email) == <<"login", StripLower(email)>>
RequestKey(email) == <<"request", StripLower(email)>>

RateKeys ==
    {LoginKey(e) : e \in LoginEmailInputs \ {""}}
        \cup {RequestKey(e) : e \in {x \in RequestEmailInputs :
                                        EmailValidate(x) = "ok"}}

\* A limiter that lets one call too many through.
RateAllowedOneMore(key, max_attempts) == attempts[key] <= max_attempts

\* RateLimiter.check_rate_limit: the verdict.
RateAllowed(key, max_attempts) == attempts[key] < max_attempts

\* RateLimiter.check_rate_limit: the attempts recorded after the call.
RateRecord(key, max_attempts) ==
    IF RateAllowed(key, max_attempts)
    THEN [attempts EXCEPT ![key] = @ + 1]
    ELSE attempts

(***************************************************************************)
(* Database reads.                                                         *)
(***************************************************************************)
\* Database.get_user_by_email: the row id, 0 for None.
get_user_by_email(email) ==
    IF \E i \in 1..Len(users) : users[i].email = StripLower(email)
    THEN CHOOSE i \in 1..Len(users) : users[i].email = StripLower(email)
    ELSE 0

\* Database.get_request_by_id: whether the row exists.
get_request_by_id(request_id) == request_id \in 1..Len(requests)

\* The SELECT of Database.create_account_request.
HasPendingRequest(email) ==
    \E i \in 1..Len(requests) :
        requests[i].email = StripLower(email) /\ requests[i].status = "pending"

\* auth.get_admin_emails
get_admin_emails ==
    {users[i].email : i \in {j \in 1..Len(users) :
        users[j].role = "admin" /\ users[j].status = "active"}}

(***************************************************************************)
(* Sessions and the route decorators.  A request carries the session of    *)
(* caller c (0: no session); load_user reads the caller's row when the     *)
(* request starts.  User.is_active is a method, so flask-login's           *)
(* is_authenticated is truthy for every loaded user.                       *)
(***************************************************************************)
Callers == {0} \cup sessions

\* auth.admin_required: 0 to let the call through, else the status returned.
admin_required(c) ==
    IF c = 0 THEN 401
    ELSE IF users[c].role # "admin" THEN 403
    ELSE 0

\* auth.login_required_api
login_required_api(c) ==
    IF c = 0 THEN 401
    ELSE IF users[c].status # "active" THEN 403
    ELSE 0

(***************************************************************************)
(* Requests and responses.                                                 *)
(***************************************************************************)
Idle == [pc |-> "idle"]

NoResp == [route |-> "none", caller |-> 0, status |-> 0, body |-> <<>>,
           mails |-> {}]

\* A response: the route and the session it answers, the HTTP status, the
\* JSON body, and the e-mails the handler sent while serving the request.
Response(route, c, status, body, mails) ==
    [route |-> route, caller |-> c, status |-> status, body |-> body,
     mails |-> mails]

\* A handler that returns in this step.
Reply(w, r) ==
    /\ resp' = r
    /\ hs' = [hs EXCEPT ![w] = Idle]

NoDbChange == UNCHANGED <<users, requests, transcripts>>

(***************************************************************************)
(* Init: the schema is created, the migration has created the admin.       *)
(***************************************************************************)
AdminUser ==
    [email |-> AdminEmail, password_hash |-> generate_password_hash(PwAdmin),
     role |-> "admin", status |-> "active", temp_password |-> FALSE,
     last_login |-> 0]

Init ==
    /\ users = <<AdminUser>>
    /\ requests = <<>>
    /\ transcripts = <<>>
    /\ sessions = {}
    /\ hs = [w \in Workers |-> Idle]
    /\ resp = NoResp
    /\ attempts = [k \in RateKeys |-> 0]
    /\ files = {}

(* The same database with the administrator signed in. *)
InitSignedIn ==
    /\ users = <<AdminUser>>
    /\ requests = <<>>
    /\ transcripts = <<>>
    /\ sessions = {1}
    /\ hs = [w \in Workers |-> Idle]
    /\ resp = NoResp
    /\ attempts = [k \in RateKeys |-> 0]
    /\ files = {}

(***************************************************************************)
(* POST /auth/login                                                        *)
(***************************************************************************)
\* A login that lets every account through, whatever its status.
LoginStatusAny(u) == TRUE

\* login: the account status check made once the password is verified.
LoginStatusOk(u) == users[u].status = "active"

login(w, email, password) ==
    /\ hs[w] = Idle
    /\ LET e == StripLower(email)
           u == get_user_by_email(e)
           R(status, body) == Response("login", 0, status, body, {})
       IN
       IF e = "" \/ password = <<>>
       THEN /\ Reply(w, R(400, "Email and password required"))
            /\ UNCHANGED <<sessions, attempts>>
            /\ NoDbChange
       ELSE
       /\ attempts' = RateRecord(LoginKey(e), LOGIN_MAX_ATTEMPTS)
       /\ IF ~RateAllowed(LoginKey(e), LOGIN_MAX_ATTEMPTS)
          THEN /\ Reply(w, R(429, "Too many login attempts"))
               /\ UNCHANGED sessions
               /\ NoDbChange
          ELSE IF u = 0 \/ ~check_password(users[u].password_hash, password)
          THEN /\ Reply(w, R(401, "Invalid email or password"))
               /\ UNCHANGED sessions
               /\ NoDbChange
          ELSE IF ~LoginStatusOk(u)
          THEN /\ Reply(w, R(403, "Account is not active"))
               /\ UNCHANGED sessions
               /\ NoDbChange
          ELSE /\ users[u].last_login < MaxLogins
               /\ sessions' = sessions \cup {u}
               \* Database.update_last_login
               /\ users' = [users EXCEPT ![u].last_login = @ + 1]
               /\ Reply(w, R(200, [user |-> u,
                                   temp_password |-> users[u].temp_password]))
               /\ UNCHANGED <<requests, transcripts>>
    /\ UNCHANGED files

(***************************************************************************)
(* POST /auth/logout                                                       *)
(***************************************************************************)
logout(w, c) ==
    /\ hs[w] = Idle
    /\ c # 0
    /\ sessions' = sessions \ {c}
    /\ Reply(w, Response("logout", c, 200, "success", {}))
    /\ NoDbChange
    /\ UNCHANGED <<attempts, files>>

\* Time passes until the oldest recorded attempt of a key is older than the
\* key's window: the next check_rate_limit of the key drops it.
window_elapses(key) ==
    /\ attempts[key] > 0
    /\ attempts' = [attempts EXCEPT ![key] = @ - 1]
    /\ resp' = NoResp
    /\ UNCHANGED <<users, requests, transcripts, sessions, hs, files>>

(***************************************************************************)
(* POST /auth/request-account: the checks up to the SELECT of              *)
(* create_account_request, then its INSERT and the notifications.          *)
(***************************************************************************)
request_account(w, email) ==
    /\ hs[w] = Idle
    /\ LET e == StripLower(email)
           R(status, body) == Response("request_account", 0, status, body, {})
       IN
       IF e = ""
       THEN /\ Reply(w, R(400, "Email is required"))
            /\ UNCHANGED attempts
       ELSE IF EmailValidate(e) # "ok"
       THEN /\ Reply(w, R(400, EmailValidate(e)))
            /\ UNCHANGED attempts
       ELSE
       /\ attempts' = RateRecord(RequestKey(e), REQUEST_MAX_ATTEMPTS)
       /\ IF ~RateAllowed(RequestKey(e), REQUEST_MAX_ATTEMPTS)
          THEN Reply(w, R(429, "Too many requests"))
          ELSE IF get_user_by_email(e) # 0
          THEN Reply(w, R(400, "An account with this email already exists"))
          ELSE /\ hs' = [hs EXCEPT ![w] =
                            [pc |-> "create_account_request", email |-> e]]
               /\ resp' = NoResp
    /\ NoDbChange
    /\ UNCHANGED <<sessions, files>>

\* Database.create_account_request: the SELECT for a pending request.
create_account_request_select(w) ==
    /\ hs[w].pc = "create_account_request"
    /\ IF HasPendingRequest(hs[w].email)
       THEN Reply(w, Response("request_account", 0, 400,
                              "You already have a pending account request",
                              {}))
       ELSE /\ hs' = [hs EXCEPT ![w].pc = "create_account_request_insert"]
            /\ resp' = NoResp
    /\ NoDbChange
    /\ UNCHANGED <<sessions, attempts, files>>

\* Database.create_account_request: the INSERT, then the notifications.
create_account_request_insert(w) ==
    /\ hs[w].pc = "create_account_request_insert"
    /\ Len(requests) < MaxRequests
    /\ requests' = Append(requests,
            [email |-> hs[w].email, status |-> "pending", processed_by |-> 0,
             rejection_reason |-> "none"])
    /\ Reply(w, Response("request_account", 0, 200, "success",
                         {<<"account_request", a>> : a \in get_admin_emails}))
    /\ UNCHANGED <<users, transcripts, sessions, attempts, files>>

(***************************************************************************)
(* POST /auth/change-password                                              *)
(***************************************************************************)
\* A change-password route that verifies the current password of every
\* caller, the temp_password flag set or not.
change_password_always_checks(w, c, current_password, new_password) ==
    /\ hs[w] = Idle
    /\ LET R(status, body, mails) ==
               Response("change_password", c, status, body, mails)
       IN
       IF login_required_api(c) # 0
       THEN /\ Reply(w, R(login_required_api(c), "error", {}))
            /\ NoDbChange
       ELSE IF current_password = <<>> \/ new_password = <<>>
       THEN /\ Reply(w, R(400, "Current and new password required", {}))
            /\ NoDbChange
       ELSE IF ~check_password(users[c].password_hash, current_password)
       THEN /\ Reply(w, R(401, "Current password is incorrect", {}))
            /\ NoDbChange
       ELSE IF Validate(new_password) # "ok"
       THEN /\ Reply(w, R(400, Validate(new_password), {}))
            /\ NoDbChange
       ELSE /\ users' = [users EXCEPT
                   ![c].password_hash = generate_password_hash(new_password),
                   ![c].temp_password = FALSE]
            /\ Reply(w, R(200, "success",
                          {<<"password_changed", users[c].email>>}))
            /\ UNCHANGED <<requests, transcripts>>
    /\ UNCHANGED <<sessions, attempts, files>>

change_password(w, c, current_password, new_password) ==
    /\ hs[w] = Idle
    /\ LET R(status, body, mails) ==
               Response("change_password", c, status, body, mails)
       IN
       IF login_required_api(c) # 0
       THEN /\ Reply(w, R(login_required_api(c), "error", {}))
            /\ NoDbChange
       ELSE IF current_password = <<>> \/ new_password = <<>>
       THEN /\ Reply(w, R(400, "Current and new password required", {}))
            /\ NoDbChange
       ELSE IF /\ ~users[c].temp_password
               /\ ~check_password(users[c].password_hash, current_password)
       THEN /\ Reply(w, R(401, "Current password is incorrect", {}))
            /\ NoDbChange
       ELSE IF Validate(new_password) # "ok"
       THEN /\ Reply(w, R(400, Validate(new_password), {}))
            /\ NoDbChange
       ELSE \* Database.update_user_password
            /\ users' = [users EXCEPT
                   ![c].password_hash = generate_password_hash(new_password),
                   ![c].temp_password = FALSE]
            /\ Reply(w, R(200, "success",
                          {<<"password_changed", users[c].email>>}))
            /\ UNCHANGED <<requests, transcripts>>
    /\ UNCHANGED <<sessions, attempts, files>>

(***************************************************************************)
(* POST /admin/approve-request/<id>                                        *)
(***************************************************************************)
RequestIds == 1..(Len(requests) + 1)

\* approve_request without the test that the request is still pending.
approve_request_any_status(w, c, request_id) ==
    /\ hs[w] = Idle
    /\ LET R(status, body) ==
               Response("approve_request", c, status, body, {})
       IN
       IF admin_required(c) # 0
       THEN Reply(w, R(admin_required(c), "error"))
       ELSE IF ~get_request_by_id(request_id)
       THEN Reply(w, R(404, "Request not found or already processed"))
       ELSE /\ hs' = [hs EXCEPT ![w] =
                         [pc |-> "approve_get_user", id |-> request_id,
                          email |-> requests[request_id].email, admin |-> c]]
            /\ resp' = NoResp
    /\ NoDbChange
    /\ UNCHANGED <<sessions, attempts, files>>

approve_request(w, c, request_id) ==
    /\ hs[w] = Idle
    /\ LET R(status, body) ==
               Response("approve_request", c, status, body, {})
       IN
       IF admin_required(c) # 0
       THEN Reply(w, R(admin_required(c), "error"))
       ELSE IF \/ ~get_request_by_id(request_id)
               \/ requests[request_id].status # "pending"
       THEN Reply(w, R(404, "Request not found or already processed"))
       ELSE /\ hs' = [hs EXCEPT ![w] =
                         [pc |-> "approve_get_user", id |-> request_id,
                          email |-> requests[request_id].email, admin |-> c]]
            /\ resp' = NoResp
    /\ NoDbChange
    /\ UNCHANGED <<sessions, attempts, files>>

\* approve_request: the check that no user has the e-mail yet.
approve_get_user(w) ==
    /\ hs[w].pc = "approve_get_user"
    /\ IF get_user_by_email(hs[w].email) # 0
       THEN Reply(w, Response("approve_request", hs[w].admin, 400,
                              "User already exists", {}))
       ELSE /\ hs' = [hs EXCEPT ![w].pc = "approve_create_user"]
            /\ resp' = NoResp
    /\ NoDbChange
    /\ UNCHANGED <<sessions, attempts, files>>

\* create_user on a table without the UNIQUE constraint on users.email.
create_user_not_unique(email, password_hash, role, status, temp_password) ==
    Append(users,
        [email |-> StripLower(email), password_hash |-> password_hash,
         role |-> role, status |-> status,
         temp_password |-> temp_password, last_login |-> 0])

\* Database.create_user: the rows after the INSERT; the UNIQUE constraint on
\* users.email makes it fail (the rows stay) when the address is taken.
create_user(email, password_hash, role, status, temp_password) ==
    IF get_user_by_email(email) # 0
    THEN users
    ELSE Append(users,
            [email |-> StripLower(email), password_hash |-> password_hash,
             role |-> role, status |-> status,
             temp_password |-> temp_password, last_login |-> 0])

\* approve_request: generate the temporary password and create the user.
approve_create_user(w) ==
    /\ hs[w].pc = "approve_create_user"
    /\ \E temp_password \in generate_temp_password :
        /\ users' = create_user(hs[w].email,
                                generate_password_hash(temp_password),
                                "user", "active", TRUE)
        /\ IF users' = users
           THEN Reply(w, Response("approve_request", hs[w].admin, 500,
                                  "Failed to create user", {}))
           ELSE /\ hs' = [hs EXCEPT ![w] =
                             [pc |-> "approve_account_request",
                              id |-> hs[w].id, email |-> hs[w].email,
                              admin |-> hs[w].admin,
                              temp_password |-> temp_password]]
                /\ resp' = NoResp
    /\ UNCHANGED <<requests, transcripts, sessions, attempts, files>>

\* Database.approve_account_request: the rows after the UPDATE.
approve_account_request(request_id, admin_id) ==
    [requests EXCEPT ![request_id].status = "approved",
                     ![request_id].processed_by = admin_id]

\* approve_request that never puts the temporary password in the response.
approve_update_hides_password(w, sent) ==
    /\ hs[w].pc = "approve_account_request"
    /\ requests' = approve_account_request(hs[w].id, hs[w].admin)
    /\ Reply(w, Response("approve_request", hs[w].admin, 200,
            [success |-> TRUE, message |-> "Account approved and email sent"],
            IF sent THEN {<<"account_approved", hs[w].email>>} ELSE {}))
    /\ UNCHANGED <<users, transcripts, sessions, attempts, files>>

\* approve_request: mark the request approved, send the e-mail, respond.
\* sent is FALSE when the e-mail service reports a failure or raises.
approve_update(w, sent) ==
    /\ hs[w].pc = "approve_account_request"
    /\ requests' = approve_account_request(hs[w].id, hs[w].admin)
    /\ Reply(w, Response("approve_request", hs[w].admin, 200,
            IF sent
            THEN [success |-> TRUE,
                  message |-> "Account approved and email sent"]
            ELSE [success |-> TRUE,
                  warning |-> "Account created but failed to send email",
                  temp_password |-> hs[w].temp_password],
            IF sent THEN {<<"account_approved", hs[w].email>>} ELSE {}))
    /\ UNCHANGED <<users, transcripts, sessions, attempts, files>>

(***************************************************************************)
(* POST /admin/reject-request/<id>                                         *)
(***************************************************************************)
ReasonInputs == {"", "spam"}

reject_request(w, c, request_id, reason) ==
    /\ hs[w] = Idle
    /\ LET R(status, body) ==
               Response("reject_request", c, status, body, {})
       IN
       IF admin_required(c) # 0
       THEN Reply(w, R(admin_required(c), "error"))
       ELSE IF \/ ~get_request_by_id(request_id)
               \/ requests[request_id].status # "pending"
       THEN Reply(w, R(404, "Request not found or already processed"))
       ELSE /\ hs' = [hs EXCEPT ![w] =
                         [pc |-> "reject_account_request", id |-> request_id,
                          email |-> requests[request_id].email, admin |-> c,
                          reason |-> reason]]
            /\ resp' = NoResp
    /\ NoDbChange
    /\ UNCHANGED <<sessions, attempts, files>>

\* Database.reject_account_request: the rows after the UPDATE.
reject_account_request(request_id, admin_id, reason) ==
    [requests EXCEPT ![request_id].status = "rejected",
                     ![request_id].processed_by = admin_id,
                     ![request_id].rejection_reason = reason]

\* reject_request: mark the request rejected, send the e-mail, respond.
reject_update(w, sent) ==
    /\ hs[w].pc = "reject_account_request"
    /\ requests' = reject_account_request(hs[w].id, hs[w].admin, hs[w].reason)
    /\ Reply(w, Response("reject_request", hs[w].admin, 200, "success",
                         IF sent THEN {<<"account_rejected", hs[w].email>>}
                         ELSE {}))
    /\ UNCHANGED <<users, transcripts, sessions, attempts, files>>

(***************************************************************************)
(* POST /admin/user/<id>/disable and /enable                               *)
(***************************************************************************)
UserIds == 1..(Len(users) + 1)

\* Database.update_user_status: the rows after the UPDATE.
update_user_status(user_id, status) ==
    IF user_id \in 1..Len(users)
    THEN [users EXCEPT ![user_id].status = status]
    ELSE users

\* disable_user without the test of the caller's own id.
disable_user_any(w, c, user_id) ==
    /\ hs[w] = Idle
    /\ LET R(status, body) ==
               Response("disable_user", c, status, body, {})
       IN
       IF admin_required(c) # 0
       THEN /\ Reply(w, R(admin_required(c), "error"))
            /\ UNCHANGED users
       ELSE /\ users' = update_user_status(user_id, "disabled")
            /\ Reply(w, R(200, "success"))
    /\ UNCHANGED <<requests, transcripts, sessions, attempts, files>>

disable_user(w, c, user_id) ==
    /\ hs[w] = Idle
    /\ LET R(status, body) ==
               Response("disable_user", c, status, body, {})
       IN
       IF admin_required(c) # 0
       THEN /\ Reply(w, R(admin_required(c), "error"))
            /\ UNCHANGED users
       ELSE IF user_id = c
       THEN /\ Reply(w, R(400, "Cannot disable your own account"))
            /\ UNCHANGED users
       ELSE /\ users' = update_user_status(user_id, "disabled")
            /\ Reply(w, R(200, "success"))
    /\ UNCHANGED <<requests, transcripts, sessions, attempts, files>>

enable_user(w, c, user_id) ==
    /\ hs[w] = Idle
    /\ LET R(status, body) ==
               Response("enable_user", c, status, body, {})
       IN
       IF admin_required(c) # 0
       THEN /\ Reply(w, R(admin_required(c), "error"))
            /\ UNCHANGED users
       ELSE /\ users' = update_user_status(user_id, "active")
            /\ Reply(w, R(200, "success"))
    /\ UNCHANGED <<requests, transcripts, sessions, attempts, files>>

(***************************************************************************)
(* GET /history                                                            *)
(***************************************************************************)
\* Database.get_user_transcripts: the ids of the rows returned.
get_user_transcripts(user_id) ==
    {i \in 1..Len(transcripts) : transcripts[i].user_id = user_id}

\* Database.get_all_transcripts
get_all_transcripts == 1..Len(transcripts)

get_history(w, c) ==
    /\ hs[w] = Idle
    /\ IF login_required_api(c) # 0
       THEN Reply(w, Response("history", c, login_required_api(c), "error",
                              {}))
       ELSE Reply(w, Response("history", c, 200,
                              IF users[c].role = "admin"
                              THEN get_all_transcripts
                              ELSE get_user_transcripts(c), {}))
    /\ NoDbChange
    /\ UNCHANGED <<sessions, attempts, files>>

(***************************************************************************)
(* GET /transcript/<id> and GET /download-pdf/<id>/<version>               *)
(***************************************************************************)
TranscriptIds == 1..(Len(transcripts) + 1)

VersionInputs == {"clean", "formatted", "bogus"}

\* Database.get_transcript without the ownership clause.
db_get_transcript_any_owner(transcript_id, user_id) ==
    IF transcript_id \in 1..Len(transcripts) THEN transcript_id ELSE 0

\* Database.get_transcript: the id of the row selected, 0 for no row.  The
\* ownership clause is part of the query when user_id is truthy.
db_get_transcript(transcript_id, user_id) ==
    IF /\ transcript_id \in 1..Len(transcripts)
       /\ user_id # 0 => transcripts[transcript_id].user_id = user_id
    THEN transcript_id
    ELSE 0

\* The handlers' choice of query: without a user id for an administrator.
lookup_transcript(c, transcript_id) ==
    IF users[c].role = "admin"
    THEN db_get_transcript(transcript_id, 0)
    ELSE db_get_transcript(transcript_id, c)

get_transcript(w, c, transcript_id) ==
    /\ hs[w] = Idle
    /\ LET R(status, body) == Response("transcript", c, status, body, {})
       IN
       IF login_required_api(c) # 0
       THEN Reply(w, R(login_required_api(c), "error"))
       ELSE LET t == lookup_transcript(c, transcript_id)
            IN  IF t # 0
                THEN Reply(w, R(200, [id |-> t, row |-> transcripts[t]]))
                ELSE Reply(w, R(404, "Transcript not found"))
    /\ NoDbChange
    /\ UNCHANGED <<sessions, attempts, files>>

\* generate_transcript_pdf: the text the document is rendered from.
generate_transcript_pdf(row, version) ==
    IF version = "formatted"
    THEN <<"pdf", row.formatted_transcript>>
    ELSE <<"pdf", row.transcript>>

\* download_pdf whose version test comes after the lookup.
download_pdf_lookup_first(w, c, transcript_id, version, ok) ==
    /\ hs[w] = Idle
    /\ LET R(status, body) == Response("download_pdf", c, status, body, {})
       IN
       IF login_required_api(c) # 0
       THEN Reply(w, R(login_required_api(c), "error"))
       ELSE LET t == lookup_transcript(c, transcript_id)
            IN  IF t = 0
                THEN Reply(w, R(404, "Transcript not found"))
                ELSE IF version \notin {"clean", "formatted"}
                THEN Reply(w, R(400, "Invalid version"))
                ELSE Reply(w, R(200, [id |-> t, row |-> transcripts[t],
                                      version |-> version,
                                      pdf |-> generate_transcript_pdf(
                                                  transcripts[t], version)]))
    /\ NoDbChange
    /\ UNCHANGED <<sessions, attempts, files>>

\* download_pdf: ok is whether the rendering of the document succeeds; an
\* exception is answered 500.
download_pdf(w, c, transcript_id, version, ok) ==
    /\ hs[w] = Idle
    /\ LET R(status, body) == Response("download_pdf", c, status, body, {})
       IN
       IF login_required_api(c) # 0
       THEN Reply(w, R(login_required_api(c), "error"))
       ELSE IF version \notin {"clean", "formatted"}
       THEN Reply(w, R(400, "Invalid version"))
       ELSE LET t == lookup_transcript(c, transcript_id)
            IN  IF t = 0
                THEN Reply(w, R(404, "Transcript not found"))
                ELSE IF ~ok
                THEN Reply(w, R(500, "error"))
                ELSE Reply(w, R(200, [id |-> t, row |-> transcripts[t],
                                      version |-> version,
                                      pdf |-> generate_transcript_pdf(
                                                  transcripts[t], version)]))
    /\ NoDbChange
    /\ UNCHANGED <<sessions, attempts, files>>

(***************************************************************************)
(* Spec: the account workflow on two worker threads.  Accounts are         *)
(* requested, approved and rejected concurrently by anonymous callers and  *)
(* the signed-in administrator.  Logging in is part of SpecAuth.            *)
(***************************************************************************)
Next ==
    \/ \E k \in RateKeys : window_elapses(k)
    \/ \E w \in Workers, e \in {"a@x.io", "A@x.io"} : request_account(w, e)
    \/ \E w \in Workers : create_account_request_select(w)
    \/ \E w \in Workers : create_account_request_insert(w)
    \/ \E w \in Workers, c \in Callers, i \in RequestIds :
          approve_request(w, c, i)
    \/ \E w \in Workers : approve_get_user(w)
    \/ \E w \in Workers : approve_create_user(w)
    \/ \E w \in Workers, sent \in BOOLEAN : approve_update(w, sent)
    \/ \E w \in Workers, c \in Callers, i \in RequestIds, r \in ReasonInputs :
          reject_request(w, c, i, r)
    \/ \E w \in Workers, sent \in BOOLEAN : reject_update(w, sent)

Spec == InitSignedIn /\ [][Next]_vars

(***************************************************************************)
(* SpecAuth: logins, sessions and account administration, the requests     *)
(* served one after the other by one worker thread.                        *)
(***************************************************************************)
NextAuth ==
    \/ \E e \in LoginEmailInputs, p \in PasswordInputs : login("w1", e, p)
    \/ \E c \in Callers : logout("w1", c)
    \/ \E k \in RateKeys : window_elapses(k)
    \/ \E e \in RequestEmailInputs : request_account("w1", e)
    \/ create_account_request_select("w1")
    \/ create_account_request_insert("w1")
    \/ \E c \in Callers, i \in RequestIds : approve_request("w1", c, i)
    \/ approve_get_user("w1")
    \/ approve_create_user("w1")
    \/ \E sent \in BOOLEAN : approve_update("w1", sent)
    \/ \E c \in Callers, i \in UserIds : disable_user("w1", c, i)
    \/ \E c \in Callers, i \in UserIds : enable_user("w1", c, i)
    \/ \E c \in Callers : get_history("w1", c)

SpecAuth == Init /\ [][NextAuth]_vars

(***************************************************************************)
(* SpecPw: the administrator has approved the request of a@x.io, whose     *)
(* account holds the temporary password; both sign in and change their     *)
(* passwords, the requests served one after the other.                     *)
(***************************************************************************)
InitPw ==
    /\ users = <<AdminUser,
                 [email |-> "a@x.io",
                  password_hash |-> generate_password_hash(PwTemp),
                  role |-> "user", status |-> "active",
                  temp_password |-> TRUE, last_login |-> 0]>>
    /\ requests = <<[email |-> "a@x.io", status |-> "approved",
                     processed_by |-> 1, rejection_reason |-> "none"]>>
    /\ transcripts = <<>>
    /\ sessions = {}
    /\ hs = [w \in Workers |-> Idle]
    /\ resp = NoResp
    /\ attempts = [k \in RateKeys |-> 0]
    /\ files = {}

NextPw ==
    \/ \E e \in LoginEmailInputs, p \in PasswordInputs : login("w1", e, p)
    \/ \E c \in Callers : logout("w1", c)
    \/ \E k \in RateKeys : window_elapses(k)
    \/ \E c \in Callers, p \in CurrentPasswordInputs, q \in NewPasswordInputs :
          change_password("w1", c, p, q)
    \/ \E c \in Callers, i \in UserIds : disable_user("w1", c, i)
    \/ \E c \in Callers, i \in UserIds : enable_user("w1", c, i)

SpecPw == InitPw /\ [][NextPw]_vars

(***************************************************************************)
(* POST /transcribe.  A URL is the sequence of its parts, so that the      *)
(* handler's substring tests are tests on the parts; the last part is the  *)
(* video id the downloader reports.  Texts are kept as terms that record   *)
(* how they were produced.                                                 *)
(***************************************************************************)
MAX_FILE_SIZE_MB == 24
CHUNK_LENGTH_MS == 600000

None == <<>>

UrlInputs ==
    { None,
      <<"https://", "vimeo.com", "/", "abc">>,
      <<"https://www.", "youtube.com", "/watch?v=", "abc">>,
      <<"https://", "youtu.be", "/", "abc">>,
      <<"https://", "youtu.be", "/", "long">> }

\* 'marker' in youtube_url
UrlContains(youtube_url, marker) ==
    \E i \in 1..Len(youtube_url) : youtube_url[i] = marker

\* info.get('id') and info.get('title') of the downloaded video
VideoId(youtube_url) == youtube_url[Len(youtube_url)]
VideoTitle(video_id) == <<"title", video_id>>

\* The mp3 the downloader writes for a video: its size in bytes and its
\* length in milliseconds.  "abc" is exactly 24 MB; "long" is one byte more
\* and one millisecond longer than a chunk.
AudioSize(video_id) ==
    IF video_id = "long" THEN 24 * 1024 * 1024 + 1 ELSE 24 * 1024 * 1024

AudioLength(video_id) ==
    IF video_id = "long" THEN 600001 ELSE 2097152

\* os.path.join(temp_dir, f"{video_id}.mp3")
AudioPath(video_id) == <<video_id, "mp3">>

\* os.path.join(temp_dir, f"{base_name}_chunk_{i}.mp3")
ChunkPath(base_name, i) == <<base_name, "chunk", i>>

\* A chunk count that rounds down.
NumChunksFloor(total_length_ms, chunk_length_ms) ==
    total_length_ms \div chunk_length_ms

\* split_audio: num_chunks
NumChunks(total_length_ms, chunk_length_ms) ==
    (total_length_ms + chunk_length_ms - 1) \div chunk_length_ms

\* split_audio: the chunk files it writes, in order.
split_audio(audio_file_path, chunk_length_ms) ==
    LET total_length_ms == AudioLength(audio_file_path[1])
        num_chunks == NumChunks(total_length_ms, chunk_length_ms)
    IN  [i \in 1..num_chunks |-> ChunkPath(audio_file_path[1], i - 1)]

\* The text the speech-to-text API returns for a file.
SttText(path) == <<"stt", path>>

\* sep.join(texts), the texts being sequences of words.
RECURSIVE JoinWith(_, _)
JoinWith(texts, sep) ==
    IF texts = <<>> THEN <<>>
    ELSE IF Len(texts) = 1 THEN texts[1]
    ELSE texts[1] \o sep \o JoinWith(Tail(texts), sep)

\* A join that puts nothing between the texts.
JoinNoSpace(texts) == JoinWith(texts, <<>>)

\* " ".join(transcripts)
Join(texts) == JoinWith(texts, <<" ">>)

\* clean_transcript that returns nothing when the call raises.
clean_transcript_or_none(raw_transcript, ok) ==
    IF ok THEN <<"clean", raw_transcript>> ELSE None

\* clean_transcript: the model's answer, or the raw transcript when the call
\* raises.
clean_transcript(raw_transcript, ok) ==
    IF ok THEN <<"clean", raw_transcript>> ELSE raw_transcript

\* format_transcript: the model's answer, or the clean text when the call
\* raises.
format_transcript(clean_text, video_title, ok) ==
    IF ok THEN <<"formatted", clean_text, video_title>> ELSE clean_text

\* What yt-dlp does for a URL: "ok", None for info (ignoreerrors), or a
\* DownloadError with the given message.
DownloadOutcomes == {"ok", "none", "Private video", "HTTP Error 403"}

\* extract_audio: the message of the exception it raises.
extract_audio_error(outcome) ==
    CASE outcome = "none" -> <<"Failed to extract video information">>
      [] outcome = "Private video" ->
            <<"This video is private and cannot be accessed">>
      [] OTHER -> <<"YouTube download error: ", outcome>>

\* The external calls a handler has made: downloads, speech-to-text calls,
\* language-model calls.
NoCalls == [download |-> 0, stt |-> 0, llm |-> 0]

\* Database.find_transcript_by_url: the rows the query may return.  It
\* returns the newest by created_at, a stamp of one-second resolution:
\* among rows written within one second the choice is SQLite's.
find_transcript_by_url(youtube_url) ==
    {i \in 1..Len(transcripts) :
        /\ transcripts[i].youtube_url = youtube_url
        /\ transcripts[i].is_duplicate = 0}

\* Database.save_transcript: the rows after the INSERT.
save_transcript(user_id, youtube_url, video_title, transcript, formatted_transcript, is_duplicate, original_id) ==
    Append(transcripts,
        [user_id |-> user_id, youtube_url |-> youtube_url,
         video_title |-> video_title, transcript |-> transcript,
         formatted_transcript |-> formatted_transcript,
         is_duplicate |-> is_duplicate,
         original_transcript_id |-> original_id])

\* copy_transcript_for_user whose INSERT leaves original_transcript_id out.
copy_transcript_no_reference(original_id, user_id) ==
    LET original == transcripts[original_id]
    IN  Append(transcripts,
            [user_id |-> user_id,
             youtube_url |-> original.youtube_url,
             video_title |-> original.video_title,
             transcript |-> original.transcript,
             formatted_transcript |-> original.formatted_transcript,
             is_duplicate |-> 1, original_transcript_id |-> 0])

\* copy_transcript_for_user that copies the row for its owner again.
copy_transcript_same_owner(original_id, user_id) ==
    LET original == transcripts[original_id]
    IN  Append(transcripts,
            [user_id |-> original.user_id,
             youtube_url |-> original.youtube_url,
             video_title |-> original.video_title,
             transcript |-> original.transcript,
             formatted_transcript |-> original.formatted_transcript,
             is_duplicate |-> 1, original_transcript_id |-> original_id])

\* Database.copy_transcript_for_user: the rows after the INSERT.
copy_transcript_for_user(original_id, user_id) ==
    IF original_id \notin 1..Len(transcripts)
    THEN transcripts
    ELSE LET original == transcripts[original_id]
         IN  Append(transcripts,
                [user_id |-> user_id,
                 youtube_url |-> original.youtube_url,
                 video_title |-> original.video_title,
                 transcript |-> original.transcript,
                 formatted_transcript |-> original.formatted_transcript,
                 is_duplicate |-> 1, original_transcript_id |-> original_id])

\* The locals of transcribe() when it starts for session c.
TranscribeLocals(c, youtube_url) ==
    [pc |-> "extract_audio", user |-> c, url |-> youtube_url,
     existing |-> 0, audio_file |-> None, video_title |-> None,
     chunk_files |-> <<>>, i |-> 0, transcripts |-> <<>>,
     raw_transcript |-> None, clean_text |-> None,
     formatted_text |-> None, calls |-> NoCalls]

\* Handlers in progress: each may still insert one row.
InFlight == Cardinality({w \in Workers : hs[w] # Idle})

\* The except clause without the finally clause: the audio file stays.
TranscribeFailsKeepsFile(w, message) ==
    /\ Reply(w, Response("transcribe", hs[w].user, 500,
                         [error |-> message], {}))
    /\ files' = files

\* transcribe: the except and finally clauses: respond 500 with the message
\* and remove the downloaded audio file if there is one.
TranscribeFails(w, message) ==
    /\ Reply(w, Response("transcribe", hs[w].user, 500,
                         [error |-> message], {}))
    /\ files' = IF hs[w].audio_file # None
                THEN files \ {hs[w].audio_file} ELSE files

\* transcribe that never looks for an existing transcript.
transcribe_no_lookup(w, c, youtube_url) ==
    /\ hs[w] = Idle
    /\ LET R(status, body) == Response("transcribe", c, status, body, {})
       IN
       IF login_required_api(c) # 0
       THEN Reply(w, R(login_required_api(c), "error"))
       ELSE IF youtube_url = None
       THEN Reply(w, R(400, [error |-> "YouTube URL is required"]))
       ELSE IF /\ ~UrlContains(youtube_url, "youtube.com")
               /\ ~UrlContains(youtube_url, "youtu.be")
       THEN Reply(w, R(400, [error |-> "Invalid YouTube URL"]))
       ELSE /\ Len(transcripts) + InFlight < MaxTranscripts
            /\ hs' = [hs EXCEPT ![w] = TranscribeLocals(c, youtube_url)]
            /\ resp' = NoResp
    /\ NoDbChange
    /\ UNCHANGED <<sessions, attempts, files>>

\* transcribe: the decorator, the validation of the URL and the lookup of
\* an existing transcript.
transcribe(w, c, youtube_url) ==
    /\ hs[w] = Idle
    /\ LET R(status, body) == Response("transcribe", c, status, body, {})
       IN
       IF login_required_api(c) # 0
       THEN Reply(w, R(login_required_api(c), "error"))
       ELSE IF youtube_url = None
       THEN Reply(w, R(400, [error |-> "YouTube URL is required"]))
       ELSE IF /\ ~UrlContains(youtube_url, "youtube.com")
               /\ ~UrlContains(youtube_url, "youtu.be")
       THEN Reply(w, R(400, [error |-> "Invalid YouTube URL"]))
       ELSE /\ Len(transcripts) + InFlight < MaxTranscripts
            /\ IF find_transcript_by_url(youtube_url) = {}
               THEN hs' = [hs EXCEPT ![w] = TranscribeLocals(c, youtube_url)]
               ELSE \E existing \in find_transcript_by_url(youtube_url) :
                       hs' = [hs EXCEPT ![w] =
                                 [TranscribeLocals(c, youtube_url) EXCEPT
                                     !.pc = "copy_transcript_for_user",
                                     !.existing = existing]]
            /\ resp' = NoResp
    /\ NoDbChange
    /\ UNCHANGED <<sessions, attempts, files>>

\* transcribe: copy the existing transcript for the caller and return it.
\* The rows of transcripts are never updated or deleted, so the row read
\* here is the row the lookup returned.
transcribe_copy(w) ==
    /\ hs[w].pc = "copy_transcript_for_user"
    /\ transcripts' = copy_transcript_for_user(hs[w].existing, hs[w].user)
    /\ LET existing == transcripts[hs[w].existing]
       IN  Reply(w, Response("transcribe", hs[w].user, 200,
                    [id |-> Len(transcripts'),
                     title |-> existing.video_title,
                     transcript |-> existing.transcript,
                     formatted_transcript |-> existing.formatted_transcript,
                     url |-> hs[w].url, duplicated |-> TRUE], {}))
    /\ UNCHANGED <<users, requests, sessions, attempts, files>>

\* transcribe: step 1, extract_audio.
transcribe_extract_audio(w, outcome) ==
    /\ hs[w].pc = "extract_audio"
    /\ LET video_id == VideoId(hs[w].url)
           calls == [hs[w].calls EXCEPT !.download = @ + 1]
       IN
       IF outcome = "ok"
       THEN /\ files' = files \cup {AudioPath(video_id)}
            /\ hs' = [hs EXCEPT ![w].pc = "transcribe_audio",
                                ![w].audio_file = AudioPath(video_id),
                                ![w].video_title = VideoTitle(video_id),
                                ![w].calls = calls]
            /\ resp' = NoResp
       ELSE TranscribeFails(w, extract_audio_error(outcome))
    /\ NoDbChange
    /\ UNCHANGED <<sessions, attempts>>

\* transcribe_audio that also splits a file of exactly the size limit.
transcribe_audio_at_least(w, ok) ==
    /\ hs[w].pc = "transcribe_audio"
    /\ LET audio_file_path == hs[w].audio_file
           calls == [hs[w].calls EXCEPT !.stt = @ + 1]
       IN
       IF audio_file_path \notin files
       THEN TranscribeFails(w, <<"Transcription failed: ", "No such file">>)
       ELSE IF AudioSize(audio_file_path[1]) >= MAX_FILE_SIZE_MB * 1024 * 1024
       THEN LET chunk_files == split_audio(audio_file_path, CHUNK_LENGTH_MS)
            IN  /\ files' = files \cup
                       {chunk_files[i] : i \in 1..Len(chunk_files)}
                /\ hs' = [hs EXCEPT ![w].pc = "transcribe_chunk",
                                    ![w].chunk_files = chunk_files,
                                    ![w].i = 1]
                /\ resp' = NoResp
       ELSE IF ok
       THEN /\ hs' = [hs EXCEPT ![w].pc = "clean_transcript",
                                ![w].raw_transcript = SttText(audio_file_path),
                                ![w].calls = calls]
            /\ resp' = NoResp
            /\ UNCHANGED files
       ELSE TranscribeFails(w, <<"Transcription failed: ", "API error">>)
    /\ NoDbChange
    /\ UNCHANGED <<sessions, attempts>>

\* transcribe: step 2, transcribe_audio up to its first speech-to-text
\* call: the size test, then split_audio or the call on the whole file.
transcribe_audio(w, ok) ==
    /\ hs[w].pc = "transcribe_audio"
    /\ LET audio_file_path == hs[w].audio_file
           calls == [hs[w].calls EXCEPT !.stt = @ + 1]
       IN
       IF audio_file_path \notin files
       THEN TranscribeFails(w, <<"Transcription failed: ", "No such file">>)
       ELSE IF AudioSize(audio_file_path[1]) > MAX_FILE_SIZE_MB * 1024 * 1024
       THEN LET chunk_files == split_audio(audio_file_path, CHUNK_LENGTH_MS)
            IN  /\ files' = files \cup
                       {chunk_files[i] : i \in 1..Len(chunk_files)}
                /\ hs' = [hs EXCEPT ![w].pc = "transcribe_chunk",
                                    ![w].chunk_files = chunk_files,
                                    ![w].i = 1]
                /\ resp' = NoResp
       ELSE IF ok
       THEN /\ hs' = [hs EXCEPT ![w].pc = "clean_transcript",
                                ![w].raw_transcript = SttText(audio_file_path),
                                ![w].calls = calls]
            /\ resp' = NoResp
            /\ UNCHANGED files
       ELSE TranscribeFails(w, <<"Transcription failed: ", "API error">>)
    /\ NoDbChange
    /\ UNCHANGED <<sessions, attempts>>

\* transcribe_audio that goes on with the text it has when a chunk fails.
transcribe_chunk_partial(w, ok) ==
    /\ hs[w].pc = "transcribe_chunk"
    /\ LET chunk_file == hs[w].chunk_files[hs[w].i]
           texts == IF ok /\ chunk_file \in files
                    THEN Append(hs[w].transcripts, SttText(chunk_file))
                    ELSE hs[w].transcripts
       IN  /\ files' = files \ {chunk_file}
           /\ IF ok /\ hs[w].i < Len(hs[w].chunk_files)
              THEN hs' = [hs EXCEPT ![w].transcripts = texts, ![w].i = @ + 1]
              ELSE hs' = [hs EXCEPT ![w].pc = "clean_transcript",
                                    ![w].transcripts = texts,
                                    ![w].raw_transcript = Join(texts)]
           /\ resp' = NoResp
    /\ NoDbChange
    /\ UNCHANGED <<sessions, attempts>>

\* transcribe_audio that goes on to the next chunk when a call fails.
transcribe_chunk_skip_failed(w, ok) ==
    /\ hs[w].pc = "transcribe_chunk"
    /\ LET chunk_file == hs[w].chunk_files[hs[w].i]
           texts == IF ok THEN Append(hs[w].transcripts, SttText(chunk_file))
                    ELSE hs[w].transcripts
           calls == [hs[w].calls EXCEPT !.stt = @ + 1]
       IN
       IF chunk_file \notin files
       THEN TranscribeFails(w, <<"Transcription failed: ", "No such file">>)
       ELSE /\ files' = files \ {chunk_file}
            /\ IF hs[w].i < Len(hs[w].chunk_files)
               THEN hs' = [hs EXCEPT ![w].transcripts = texts,
                                     ![w].i = @ + 1,
                                     ![w].calls = calls]
               ELSE hs' = [hs EXCEPT ![w].pc = "clean_transcript",
                                     ![w].transcripts = texts,
                                     ![w].raw_transcript = Join(texts),
                                     ![w].calls = calls]
            /\ resp' = NoResp
    /\ NoDbChange
    /\ UNCHANGED <<sessions, attempts>>

\* transcribe_audio: one turn of the loop over the chunks: open the chunk,
\* call the speech-to-text API, remove the chunk file.
transcribe_chunk(w, ok) ==
    /\ hs[w].pc = "transcribe_chunk"
    /\ LET chunk_file == hs[w].chunk_files[hs[w].i]
           texts == Append(hs[w].transcripts, SttText(chunk_file))
           calls == [hs[w].calls EXCEPT !.stt = @ + 1]
       IN
       IF chunk_file \notin files
       THEN TranscribeFails(w, <<"Transcription failed: ", "No such file">>)
       ELSE IF ~ok
       THEN TranscribeFails(w, <<"Transcription failed: ", "API error">>)
       ELSE /\ files' = files \ {chunk_file}
            /\ IF hs[w].i < Len(hs[w].chunk_files)
               THEN hs' = [hs EXCEPT ![w].transcripts = texts,
                                     ![w].i = @ + 1,
                                     ![w].calls = calls]
               ELSE hs' = [hs EXCEPT ![w].pc = "clean_transcript",
                                     ![w].transcripts = texts,
                                     ![w].raw_transcript = Join(texts),
                                     ![w].calls = calls]
            /\ resp' = NoResp
    /\ NoDbChange
    /\ UNCHANGED <<sessions, attempts>>

\* transcribe: step 3, clean_transcript.
transcribe_clean(w, ok) ==
    /\ hs[w].pc = "clean_transcript"
    /\ hs' = [hs EXCEPT
                ![w].pc = "format_transcript",
                ![w].clean_text = clean_transcript(hs[w].raw_transcript, ok),
                ![w].calls = [hs[w].calls EXCEPT !.llm = @ + 1]]
    /\ NoDbChange
    /\ resp' = NoResp
    /\ UNCHANGED <<sessions, attempts, files>>

\* transcribe: step 4, format_transcript.
transcribe_format(w, ok) ==
    /\ hs[w].pc = "format_transcript"
    /\ hs' = [hs EXCEPT
                ![w].pc = "save_transcript",
                ![w].formatted_text =
                    format_transcript(hs[w].clean_text, hs[w].video_title, ok),
                ![w].calls = [hs[w].calls EXCEPT !.llm = @ + 1]]
    /\ NoDbChange
    /\ resp' = NoResp
    /\ UNCHANGED <<sessions, attempts, files>>

\* A save step that looks the URL up again and stores nothing when an
\* original has appeared since the handler's lookup.
transcribe_save_unless_stored(w, ok) ==
    /\ hs[w].pc = "save_transcript"
    /\ IF ok /\ find_transcript_by_url(hs[w].url) = {}
       THEN /\ transcripts' =
                  save_transcript(hs[w].user, hs[w].url, hs[w].video_title,
                                  hs[w].clean_text, hs[w].formatted_text,
                                  0, 0)
            /\ Reply(w, Response("transcribe", hs[w].user, 200,
                        [id |-> Len(transcripts'),
                         title |-> hs[w].video_title,
                         transcript |-> hs[w].clean_text,
                         formatted_transcript |-> hs[w].formatted_text,
                         url |-> hs[w].url, duplicated |-> FALSE], {}))
            /\ files' = files \ {hs[w].audio_file}
       ELSE /\ TranscribeFails(w, <<"database is locked">>)
            /\ UNCHANGED transcripts
    /\ UNCHANGED <<users, requests, sessions, attempts>>

\* transcribe: step 5, save_transcript, then the response and the finally
\* clause; the INSERT may raise (the database is locked).
transcribe_save(w, ok) ==
    /\ hs[w].pc = "save_transcript"
    /\ IF ok
       THEN /\ transcripts' =
                  save_transcript(hs[w].user, hs[w].url, hs[w].video_title,
                                  hs[w].clean_text, hs[w].formatted_text,
                                  0, 0)
            /\ Reply(w, Response("transcribe", hs[w].user, 200,
                        [id |-> Len(transcripts'),
                         title |-> hs[w].video_title,
                         transcript |-> hs[w].clean_text,
                         formatted_transcript |-> hs[w].formatted_text,
                         url |-> hs[w].url, duplicated |-> FALSE], {}))
            /\ files' = files \ {hs[w].audio_file}
       ELSE /\ TranscribeFails(w, <<"database is locked">>)
            /\ UNCHANGED transcripts
    /\ UNCHANGED <<users, requests, sessions, attempts>>

(***************************************************************************)
(* SpecTr: /transcribe on two worker threads for two signed-in users, the  *)
(* handlers interleaving at every database and external call; the language *)
(* model answers every call.  SpecPipe: the requests served one after the  *)
(* other, every external call free to fail.                                *)
(***************************************************************************)
ActiveUser(email) ==
    [email |-> email, password_hash |-> generate_password_hash(PwNew),
     role |-> "user", status |-> "active", temp_password |-> FALSE,
     last_login |-> 1]

InitTr ==
    /\ users = <<AdminUser, ActiveUser("a@x.io"), ActiveUser("b@x.io")>>
    /\ requests = <<>>
    /\ transcripts = <<>>
    /\ sessions = {2, 3}
    /\ hs = [w \in Workers |-> Idle]
    /\ resp = NoResp
    /\ attempts = [k \in RateKeys |-> 0]
    /\ files = {}

NextTr ==
    \/ \E w \in Workers, c \in Callers, u \in UrlInputs : transcribe(w, c, u)
    \/ \E w \in Workers : transcribe_copy(w)
    \/ \E w \in Workers, o \in DownloadOutcomes : transcribe_extract_audio(w, o)
    \/ \E w \in Workers, ok \in BOOLEAN : transcribe_audio(w, ok)
    \/ \E w \in Workers, ok \in BOOLEAN : transcribe_chunk(w, ok)
    \/ \E w \in Workers : transcribe_clean(w, TRUE)
    \/ \E w \in Workers : transcribe_format(w, TRUE)
    \/ \E w \in Workers, ok \in BOOLEAN : transcribe_save(w, ok)

SpecTr == InitTr /\ [][NextTr]_vars

NextPipe ==
    \/ \E c \in Callers, u \in UrlInputs : transcribe("w1", c, u)
    \/ transcribe_copy("w1")
    \/ \E o \in DownloadOutcomes : transcribe_extract_audio("w1", o)
    \/ \E ok \in BOOLEAN : transcribe_audio("w1", ok)
    \/ \E ok \in BOOLEAN : transcribe_chunk("w1", ok)
    \/ \E ok \in BOOLEAN : transcribe_clean("w1", ok)
    \/ \E ok \in BOOLEAN : transcribe_format("w1", ok)
    \/ \E ok \in BOOLEAN : transcribe_save("w1", ok)

SpecPipe == InitTr /\ [][NextPipe]_vars

(***************************************************************************)
(* SpecGen: auth.generate_temp_password on its own, called with its        *)
(* default length.  secrets.choice draws any character of its argument;    *)
(* the model draws the special character from the whole of the generator's *)
(* set and the others from representatives of their classes, and the       *)
(* shuffle is one of a few permutations.                                   *)
(***************************************************************************)
DefaultLength == 16

\* A special class with a character the validator does not count.
GenSpecialCharsWithTilde == {"!", "@", "#", "$", "%", "^", "&", "*", "~"}

\* special = '!@#$%^&*'
GenSpecialChars == {"!", "@", "#", "$", "%", "^", "&", "*"}

\* all_chars = uppercase + lowercase + digits + special
all_chars == UpperChars \cup LowerChars \cup DigitChars \cup GenSpecialChars

\* The characters the model lets secrets.choice return.
UpperPicks == {"A", "Z"} \cap UpperChars
LowerPicks == {"a", "z"} \cap LowerChars
DigitPicks == {"0", "9"} \cap DigitChars
FillPicks == {"q", "&"} \cap all_chars

\* The orders the model lets shuffle leave a list of n items in: as it was,
\* reversed, and rotated by one.
ShufflePerms(n) ==
    { [i \in 1..n |-> i],
      [i \in 1..n |-> n + 1 - i],
      [i \in 1..n |-> (i % n) + 1] }

Permute(list, perm) == [i \in 1..Len(list) |-> list[perm[i]]]

\* password = [choice(uppercase), choice(lowercase), choice(digits),
\*             choice(special)]
generate_temp_password_required(w) ==
    /\ hs[w].pc = "generate_temp_password"
    /\ \E u \in UpperPicks, l \in LowerPicks, d \in DigitPicks,
          s \in GenSpecialChars :
          hs' = [hs EXCEPT ![w] = [pc |-> "generate_temp_password_fill",
                                   length |-> hs[w].length,
                                   password |-> <<u, l, d, s>>]]
    /\ resp' = NoResp
    /\ UNCHANGED <<users, requests, transcripts, sessions, attempts, files>>

\* password.extend(choice(all_chars) for _ in range(length - 4)): one draw.
generate_temp_password_fill(w) ==
    /\ hs[w].pc = "generate_temp_password_fill"
    /\ Len(hs[w].password) < hs[w].length
    /\ \E ch \in FillPicks :
          hs' = [hs EXCEPT ![w].password = Append(@, ch)]
    /\ resp' = NoResp
    /\ UNCHANGED <<users, requests, transcripts, sessions, attempts, files>>

\* shuffle(password); return ''.join(password)
generate_temp_password_return(w) ==
    /\ hs[w].pc = "generate_temp_password_fill"
    /\ Len(hs[w].password) >= hs[w].length
    /\ \E perm \in ShufflePerms(Len(hs[w].password)) :
          hs' = [hs EXCEPT ![w] =
                    [pc |-> "generate_temp_password_returned",
                     length |-> hs[w].length,
                     password |-> Permute(hs[w].password, perm)]]
    /\ resp' = NoResp
    /\ UNCHANGED <<users, requests, transcripts, sessions, attempts, files>>

InitGen ==
    /\ users = <<AdminUser>>
    /\ requests = <<>>
    /\ transcripts = <<>>
    /\ sessions = {}
    /\ hs = [w \in Workers |->
                IF w = "w1"
                THEN [pc |-> "generate_temp_password",
                      length |-> DefaultLength, password |-> <<>>]
                ELSE Idle]
    /\ resp = NoResp
    /\ attempts = [k \in RateKeys |-> 0]
    /\ files = {}

NextGen ==
    \/ generate_temp_password_required("w1")
    \/ generate_temp_password_fill("w1")
    \/ generate_temp_password_return("w1")

SpecGen == InitGen /\ [][NextGen]_vars

(***************************************************************************)
(* SpecAdmins: a deployment with two administrators, both rows made with   *)
(* Database.create_user(role='admin'), who sign in and disable and enable  *)
(* accounts, the requests served one after the other.                      *)
(***************************************************************************)
SecondAdmin ==
    [email |-> "a@x.io", password_hash |-> generate_password_hash(PwNew),
     role |-> "admin", status |-> "active", temp_password |-> FALSE,
     last_login |-> 0]

InitAdmins ==
    /\ users = <<AdminUser, SecondAdmin>>
    /\ requests = <<>>
    /\ transcripts = <<>>
    /\ sessions = {}
    /\ hs = [w \in Workers |-> Idle]
    /\ resp = NoResp
    /\ attempts = [k \in RateKeys |-> 0]
    /\ files = {}

NextAdmins ==
    \/ \E e \in {"root@x.io", "a@x.io"}, p \in {PwAdmin, PwNew} :
          login("w1", e, p)
    \/ \E c \in Callers : logout("w1", c)
    \/ \E k \in RateKeys : window_elapses(k)
    \/ \E c \in Callers, i \in UserIds : disable_user("w1", c, i)
    \/ \E c \in Callers, i \in UserIds : enable_user("w1", c, i)
    \/ \E c \in Callers : get_history("w1", c)

SpecAdmins == InitAdmins /\ [][NextAdmins]_vars

(***************************************************************************)
(* SpecSplit: split_audio on its own, called on an audio of any length up  *)
(* to MaxLengthMs with any chunk length from 1 to MaxChunkMs.              *)
(***************************************************************************)
Min(a, b) == IF a <= b THEN a ELSE b

\* split_audio: the loop, one turn a step.  The audio is the interval
\* [0, total_length_ms) and a chunk is the slice audio[start_ms:end_ms].
split_audio_loop(w) ==
    /\ hs[w].pc = "split_audio"
    /\ hs[w].i < hs[w].num_chunks
    /\ LET start_ms == hs[w].i * hs[w].chunk_length_ms
           end_ms == Min((hs[w].i + 1) * hs[w].chunk_length_ms,
                         hs[w].total_length_ms)
       IN  hs' = [hs EXCEPT
                    ![w].chunks = Append(@, [start_ms |-> start_ms,
                                             end_ms |-> end_ms]),
                    ![w].i = @ + 1]
    /\ resp' = NoResp
    /\ NoDbChange
    /\ UNCHANGED <<sessions, attempts, files>>

\* split_audio: the loop is over, the list is returned.
split_audio_return(w) ==
    /\ hs[w].pc = "split_audio"
    /\ hs[w].i = hs[w].num_chunks
    /\ hs' = [hs EXCEPT ![w].pc = "split_audio_returned"]
    /\ resp' = NoResp
    /\ NoDbChange
    /\ UNCHANGED <<sessions, attempts, files>>

InitSplit ==
    /\ users = <<AdminUser>>
    /\ requests = <<>>
    /\ transcripts = <<>>
    /\ sessions = {}
    /\ \E total_length_ms \in 0..MaxLengthMs, chunk_length_ms \in 1..MaxChunkMs :
          hs = [w \in Workers |->
                  IF w = "w1"
                  THEN [pc |-> "split_audio",
                        total_length_ms |-> total_length_ms,
                        chunk_length_ms |-> chunk_length_ms,
                        num_chunks |-> NumChunks(total_length_ms,
                                                 chunk_length_ms),
                        i |-> 0, chunks |-> <<>>]
                  ELSE Idle]
    /\ resp = NoResp
    /\ attempts = [k \in RateKeys |-> 0]
    /\ files = {}

NextSplit ==
    \/ split_audio_loop("w1")
    \/ split_audio_return("w1")

SpecSplit == InitSplit /\ [][NextSplit]_vars

(***************************************************************************)
(* SpecRead: the administrator and two users store transcripts and read    *)
(* them back, the requests served one after the other; the videos are     *)
(* short, and the download and every speech and language-model call        *)
(* succeed.                                                                *)
(***************************************************************************)
InitRead ==
    /\ users = <<AdminUser, ActiveUser("a@x.io"), ActiveUser("b@x.io")>>
    /\ requests = <<>>
    /\ transcripts = <<>>
    /\ sessions = {1, 2, 3}
    /\ hs = [w \in Workers |-> Idle]
    /\ resp = NoResp
    /\ attempts = [k \in RateKeys |-> 0]
    /\ files = {}

ReadUrlInputs ==
    { <<"https://www.", "youtube.com", "/watch?v=", "abc">>,
      <<"https://", "youtu.be", "/", "abc">> }

NextRead ==
    \/ \E c \in Callers, u \in ReadUrlInputs : transcribe("w1", c, u)
    \/ transcribe_copy("w1")
    \/ transcribe_extract_audio("w1", "ok")
    \/ transcribe_audio("w1", TRUE)
    \/ transcribe_clean("w1", TRUE)
    \/ transcribe_format("w1", TRUE)
    \/ transcribe_save("w1", TRUE)
    \/ \E c \in Callers : get_history("w1", c)
    \/ \E c \in Callers, i \in TranscriptIds : get_transcript("w1", c, i)
    \/ \E c \in Callers, i \in TranscriptIds, v \in VersionInputs,
          ok \in BOOLEAN : download_pdf("w1", c, i, v, ok)

SpecRead == InitRead /\ [][NextRead]_vars

(***************************************************************************)
(* Claims about the account workflow.                                      *)
(***************************************************************************)
UsersWithEmail(rows, email) ==
    {i \in 1..Len(rows) : rows[i].email = email}

PendingRequests(email) ==
    {i \in 1..Len(requests) :
        requests[i].email = email /\ requests[i].status = "pending"}

\* The routes guarded by login_required_api that C3 names.
GuardedRoutes == {"transcribe", "history", "transcript", "download_pdf"}

\* C3: a user whose temp_password flag is set gets no successful response
\* from a route guarded by login_required_api before a change-password call
\* has succeeded (which is what clears the flag).
C3_TempPasswordBlocksRoutes ==
    (resp.route \in GuardedRoutes /\ resp.status = 200)
        => ~users[resp.caller].temp_password

\* C4: the step of approve-request that creates the user adds one row when
\* no row has the request's e-mail yet, with that e-mail, role user, status
\* active and temp_password set, and adds none otherwise; the handler's last
\* step leaves the request approved; no e-mail ever has two user rows.
C4_ApproveCreatesOneUser ==
    [][/\ \A w \in Workers :
            /\ (hs[w].pc = "approve_create_user" /\ hs'[w] # hs[w]) =>
                  IF UsersWithEmail(users, hs[w].email) = {}
                  THEN /\ users' = Append(users, users'[Len(users')])
                       /\ users'[Len(users')].email = hs[w].email
                       /\ users'[Len(users')].role = "user"
                       /\ users'[Len(users')].status = "active"
                       /\ users'[Len(users')].temp_password = TRUE
                  ELSE users' = users /\ resp'.status = 500
            /\ (hs[w].pc = "approve_account_request" /\ hs'[w] # hs[w]) =>
                  /\ requests'[hs[w].id].status = "approved"
                  /\ resp'.status = 200
                  /\ Cardinality(UsersWithEmail(users', hs[w].email)) = 1
       /\ Len(users') >= Len(users)
       /\ \A i \in 1..Len(users') :
             Cardinality(UsersWithEmail(users', users'[i].email)) = 1
      ]_vars

\* C4 witness: a request is approved, its user exists, and a further approve
\* call on it has been answered with an error.
C4_Witness ==
    /\ resp.route = "approve_request"
    /\ resp.status \in {400, 404, 500}
    /\ \E i \in 1..Len(requests) :
          /\ requests[i].status = "approved"
          /\ Cardinality(UsersWithEmail(users, requests[i].email)) = 1

\* C5: approve-request and reject-request by an admin on a request id that
\* does not exist or is no longer pending answer 404 in that step, send no
\* e-mail and leave users and account_requests as they are.
C5_ProcessedRequestIs404 ==
    [][\A w \in Workers :
          (hs[w] = Idle /\ (hs'[w] # Idle \/ resp' # resp)) =>
          \A c \in Callers, i \in RequestIds :
              (/\ admin_required(c) = 0
               /\ (i \notin 1..Len(requests) \/ requests[i].status # "pending")
               /\ \/ approve_request(w, c, i)
                  \/ \E r \in ReasonInputs : reject_request(w, c, i, r))
              => /\ resp'.status = 404
                 /\ resp'.mails = {}
                 /\ users' = users
                 /\ requests' = requests
                 /\ hs'[w] = Idle
      ]_vars

\* C5 witness: every request is processed and a reject call got 404.
C5_Witness ==
    /\ resp.route = "reject_request"
    /\ resp.status = 404
    /\ Len(requests) > 0
    /\ \A i \in 1..Len(requests) : requests[i].status \in {"approved", "rejected"}

\* C8: account_requests holds at most one pending request per e-mail.
C8_OnePendingPerEmail ==
    \A i \in 1..Len(requests) :
        Cardinality(PendingRequests(requests[i].email)) <= 1

\* C9 as stated: a login with the right e-mail and password for a user who
\* is not active is answered 403, opens no session and leaves last_login.
C9_InactiveLoginIs403 ==
    [][\A u \in {i \in 1..Len(users) : users[i].status # "active"} :
       \A e \in LoginEmailInputs, p \in PasswordInputs :
              (/\ e # "" /\ p # <<>> /\ get_user_by_email(e) = u
               /\ check_password(users[u].password_hash, p)
               /\ users[u].status # "active"
               /\ login("w1", e, p))
              => /\ resp'.status = 403
                 /\ sessions' = sessions
                 /\ users' = users
      ]_vars

\* C9 amended: such a login is answered 403, or 429 when the rate limiter
\* has already recorded LOGIN_MAX_ATTEMPTS attempts for the e-mail; either
\* way it opens no session and leaves last_login.
C9_InactiveLoginRefused ==
    [][\A u \in {i \in 1..Len(users) : users[i].status # "active"} :
       \A e \in LoginEmailInputs, p \in PasswordInputs :
              (/\ e # "" /\ p # <<>> /\ get_user_by_email(e) = u
               /\ check_password(users[u].password_hash, p)
               /\ users[u].status # "active"
               /\ login("w1", e, p))
              => /\ resp'.route = "login"
                 /\ resp'.status =
                       IF attempts[LoginKey(e)] >= LOGIN_MAX_ATTEMPTS
                       THEN 429 ELSE 403
                 /\ sessions' = sessions
                 /\ users' = users
      ]_vars

\* C9 witness: a login was answered 403, which login answers only once the
\* password has been verified.
C9_Witness ==
    /\ resp.route = "login"
    /\ resp.status = 403
    /\ \E u \in 1..Len(users) : users[u].status = "disabled"

(***************************************************************************)
(* Claims about /transcribe.                                               *)
(***************************************************************************)
ValidUrl(youtube_url) ==
    /\ youtube_url # None
    /\ \/ UrlContains(youtube_url, "youtube.com")
       \/ UrlContains(youtube_url, "youtu.be")

\* The non-duplicate rows of a URL.
Originals(youtube_url) ==
    {i \in 1..Len(transcripts) :
        /\ transcripts[i].youtube_url = youtube_url
        /\ transcripts[i].is_duplicate = 0}

\* C1: a /transcribe call by an active signed-in user with a valid URL that
\* has a non-duplicate row goes straight to the copy of such a row, having
\* made no download, speech-to-text or language-model call, and the copy
\* step answers 200 with duplicated set and that row's transcript and
\* formatted text, touching no file.
C1_DuplicateMakesNoApiCall ==
    [][\A w \in Workers :
          /\ (hs[w] = Idle /\ hs'[w] # Idle) =>
                \A c \in Callers, u \in UrlInputs :
                    (/\ login_required_api(c) = 0
                     /\ ValidUrl(u)
                     /\ Originals(u) # {}
                     /\ transcribe(w, c, u))
                    => /\ hs'[w].pc = "copy_transcript_for_user"
                       /\ hs'[w].existing \in Originals(u)
                       /\ hs'[w].calls = NoCalls
          /\ (hs[w].pc = "copy_transcript_for_user" /\ hs'[w] # hs[w]) =>
                /\ hs[w].calls = NoCalls
                /\ hs'[w] = Idle
                /\ files' = files
                /\ resp'.route = "transcribe"
                /\ resp'.status = 200
                /\ resp'.body.duplicated = TRUE
                /\ resp'.body.transcript =
                      transcripts[hs[w].existing].transcript
                /\ resp'.body.formatted_transcript =
                      transcripts[hs[w].existing].formatted_transcript
      ]_vars

\* C1 witness: a call was answered with a copy of a transcript that took a
\* language-model call to make.
C1_Witness ==
    /\ resp.route = "transcribe"
    /\ resp.status = 200
    /\ resp.body.duplicated
    /\ resp.body.transcript[1] = "clean"

\* C2: the copy step inserts exactly one row and changes no other: the new
\* row is owned by the caller, has is_duplicate = 1, refers to the row found
\* and carries its URL, title, transcript and formatted text.
C2_CopyOwnedByRequester ==
    [][\A w \in Workers :
          (hs[w].pc = "copy_transcript_for_user" /\ hs'[w] # hs[w]) =>
             LET r == transcripts[hs[w].existing]
                 n == transcripts'[Len(transcripts')]
             IN  /\ r.youtube_url = hs[w].url
                 /\ r.is_duplicate = 0
                 /\ transcripts' = Append(transcripts, n)
                 /\ n.user_id = hs[w].user
                 /\ n.is_duplicate = 1
                 /\ n.original_transcript_id = hs[w].existing
                 /\ n.youtube_url = r.youtube_url
                 /\ n.video_title = r.video_title
                 /\ n.transcript = r.transcript
                 /\ n.formatted_transcript = r.formatted_transcript
      ]_vars

\* C2 witness: user 3 holds a copy of a transcript user 2 made.
C2_Witness ==
    \E i \in 1..Len(transcripts) :
        /\ transcripts[i].is_duplicate = 1
        /\ transcripts[i].user_id = 3
        /\ transcripts[transcripts[i].original_transcript_id].user_id = 2

\* C6: every URL has at most one non-duplicate row.
C6_OneOriginalPerUrl ==
    \A i \in 1..Len(transcripts) :
        Cardinality(Originals(transcripts[i].youtube_url)) <= 1

C10_FailureStoresNothing ==
    [][/\ \A w \in Workers :
            /\ (hs[w].pc = "extract_audio" /\ hs'[w] # hs[w]) =>
                  \A o \in DownloadOutcomes \ {"ok"} :
                      transcribe_extract_audio(w, o) =>
                         /\ hs'[w] = Idle
                         /\ resp'.status = 500
                         /\ resp'.body.error = extract_audio_error(o)
                         /\ transcripts' = transcripts
            /\ (/\ hs[w].pc = "transcribe_audio"
                /\ hs'[w] # hs[w]
                /\ \/ hs[w].audio_file \notin files
                   \/ AudioSize(hs[w].audio_file[1])
                         <= MAX_FILE_SIZE_MB * 1024 * 1024
                /\ transcribe_audio(w, FALSE)) =>
                  /\ hs'[w] = Idle
                  /\ resp'.status = 500
                  /\ resp'.body.error[1] = "Transcription failed: "
                  /\ transcripts' = transcripts
            /\ (/\ hs[w].pc = "transcribe_chunk"
                /\ hs'[w] # hs[w]
                /\ transcribe_chunk(w, FALSE)) =>
                  /\ hs'[w] = Idle
                  /\ resp'.status = 500
                  /\ resp'.body.error[1] = "Transcription failed: "
                  /\ transcripts' = transcripts
       /\ transcripts' # transcripts =>
            \E w \in Workers :
                /\ hs'[w] = Idle
                /\ resp'.status = 200
                /\ \/ hs[w].pc = "copy_transcript_for_user"
                   \/ /\ hs[w].pc = "save_transcript"
                      /\ hs[w].calls.download = 1
                      /\ hs[w].calls.stt >= 1
                      /\ hs[w].calls.llm = 2
                      /\ hs[w].formatted_text # None
      ]_vars

\* C10 witness: the second chunk's speech-to-text call failed: its file is
\* left behind, the first chunk's is gone, and a row was stored before.
C10_Witness ==
    /\ resp.route = "transcribe"
    /\ resp.status = 500
    /\ resp.body.error = <<"Transcription failed: ", "API error">>
    /\ ChunkPath("long", 1) \in files
    /\ ChunkPath("long", 0) \notin files
    /\ Len(transcripts) > 0

(***************************************************************************)
(* Claims about the language-model passes.                                 *)
(***************************************************************************)
\* C11: when the clean call fails the handler goes on with the raw
\* transcript as its clean text, when the format call fails it goes on with
\* the clean text as its formatted text, neither failure ends the request,
\* and the save step stores the two texts as they are and answers 200; so
\* after two failures both stored texts are the raw transcript.
C11_RefineFailureFallsBack ==
    [][/\ (hs["w1"].pc = "clean_transcript" /\ transcribe_clean("w1", FALSE)) =>
             /\ hs'["w1"].pc = "format_transcript"
             /\ hs'["w1"].clean_text = hs["w1"].raw_transcript
             /\ resp' = NoResp
             /\ transcripts' = transcripts
       /\ (hs["w1"].pc = "format_transcript" /\ transcribe_format("w1", FALSE)) =>
             /\ hs'["w1"].pc = "save_transcript"
             /\ hs'["w1"].formatted_text = hs["w1"].clean_text
             /\ hs'["w1"].clean_text = hs["w1"].clean_text
             /\ resp' = NoResp
             /\ transcripts' = transcripts
       /\ (hs["w1"].pc = "save_transcript" /\ transcribe_save("w1", TRUE)) =>
             LET n == transcripts'[Len(transcripts')]
             IN  /\ transcripts' = Append(transcripts, n)
                 /\ n.transcript = hs["w1"].clean_text
                 /\ n.formatted_transcript = hs["w1"].formatted_text
                 /\ n.transcript # None
                 /\ resp'.status = 200
                 /\ resp'.body.transcript = n.transcript
                 /\ resp'.body.formatted_transcript = n.formatted_transcript
      ]_vars

\* C11 witness: a request was answered 200 with a stored row whose two texts
\* are both the raw transcript joined from the chunks.
C11_Witness ==
    /\ resp.route = "transcribe"
    /\ resp.status = 200
    /\ ~resp.body.duplicated
    /\ resp.body.transcript =
          Join(<<SttText(ChunkPath("long", 0)), SttText(ChunkPath("long", 1))>>)
    /\ transcripts[resp.body.id].transcript = resp.body.transcript
    /\ transcripts[resp.body.id].formatted_transcript = resp.body.transcript

(***************************************************************************)
(* Claims about reading transcripts back.                                  *)
(***************************************************************************)
ReadRoutes == {"transcript", "download_pdf"}

\* C12: a caller who is not an administrator is given a record by
\* /transcript or /download-pdf only when the record's user_id is the
\* caller's id; asking for somebody else's record is answered 404 like
\* asking for an id that does not exist; /history lists exactly the
\* caller's own records, and every record for an administrator, who is
\* also given any single record asked for.
C12_ReadsOnlyOwnRecords ==
    [][\A c \in sessions, i \in TranscriptIds :
          LET own == i \in 1..Len(transcripts) /\ transcripts[i].user_id = c
              admin == users[c].role = "admin"
              readable == i \in 1..Len(transcripts) /\ (admin \/ own)
              Answered(route) ==
                  /\ hs["w1"] = Idle
                  /\ resp'.route = route
                  /\ resp'.caller = c
          IN  /\ (Answered("transcript") /\ get_transcript("w1", c, i)) =>
                    /\ resp'.status = 200 <=> readable
                    /\ resp'.status = 404 <=> ~readable
                    /\ readable => /\ resp'.body.id = i
                                   /\ resp'.body.row = transcripts[i]
                    /\ ~readable => resp'.body = "Transcript not found"
              /\ \A v \in {"clean", "formatted"} :
                    (/\ Answered("download_pdf")
                     /\ download_pdf("w1", c, i, v, TRUE)) =>
                       /\ resp'.status = 200 <=> readable
                       /\ resp'.status = 404 <=> ~readable
                       /\ readable => /\ resp'.body.id = i
                                      /\ resp'.body.row = transcripts[i]
                       /\ ~readable => resp'.body = "Transcript not found"
              /\ (Answered("history") /\ get_history("w1", c)) =>
                    /\ resp'.status = 200
                    /\ resp'.body =
                          {j \in 1..Len(transcripts) :
                              admin \/ transcripts[j].user_id = c}
      ]_vars

\* C12 witness: a user who owns a record has just been answered 404 for a
\* record that exists and belongs to another user.
C12_Witness ==
    /\ resp.route \in ReadRoutes
    /\ resp.status = 404
    /\ users[resp.caller].role = "user"
    /\ \E i, j \in 1..Len(transcripts) :
          /\ transcripts[i].user_id = resp.caller
          /\ transcripts[j].user_id \notin {resp.caller, 1}

\* C17: a download whose version is neither 'clean' nor 'formatted', made
\* by a caller the route lets in, is answered 400 'Invalid version' with no
\* document, whether the id names no record, the caller's record or
\* somebody else's record, and whether or not rendering would succeed.
C17_InvalidVersionIs400 ==
    [][\A c \in sessions, i \in TranscriptIds, ok \in BOOLEAN :
          (/\ hs["w1"] = Idle
           /\ login_required_api(c) = 0
           /\ resp'.route = "download_pdf"
           /\ resp'.caller = c
           /\ download_pdf("w1", c, i, "bogus", ok)) =>
              /\ resp'.status = 400
              /\ resp'.body = "Invalid version"
      ]_vars

\* C17 witness: a user has been answered 400 by the download route while
\* the table holds a record of theirs and a record of another user.
C17_Witness ==
    /\ resp.route = "download_pdf"
    /\ resp.status = 400
    /\ users[resp.caller].role = "user"
    /\ \E i, j \in 1..Len(transcripts) :
          /\ transcripts[i].user_id = resp.caller
          /\ transcripts[j].user_id # resp.caller

(***************************************************************************)
(* Claims about passwords, approvals and account administration.           *)
(***************************************************************************)
\* C13 as amended: a change-password request of a signed-in active user
\* whose new password is shorter than 12 characters leaves every user row,
\* and so the password hash and the temp_password flag, unchanged; it is
\* answered 401 when both passwords are given, the account has no temporary
\* password and the current password is wrong, and 400 otherwise, with the
\* length message when both passwords are given.
C13_WeakPasswordRejected ==
    [][(hs["w1"] = Idle /\ resp'.route = "change_password") =>
       \A c \in sessions, p \in CurrentPasswordInputs,
          q \in NewPasswordInputs :
          (/\ resp'.caller = c
           /\ login_required_api(c) = 0
           /\ Len(q) < MIN_LENGTH
           /\ change_password("w1", c, p, q)) =>
              /\ users' = users
              /\ IF p = <<>> \/ q = <<>>
                 THEN resp'.status = 400
                 ELSE IF /\ ~users[c].temp_password
                         /\ ~check_password(users[c].password_hash, p)
                 THEN resp'.status = 401
                 ELSE /\ resp'.status = 400
                      /\ resp'.body = "Password must be at least 12 characters"
      ]_vars

\* C13 as stated: a change-password request whose new password is shorter
\* than 12 characters is answered 400 and leaves the rows unchanged.
C13_WeakPasswordIs400 ==
    [][(hs["w1"] = Idle /\ resp'.route = "change_password") =>
       \A c \in sessions, p \in CurrentPasswordInputs,
          q \in NewPasswordInputs :
          (/\ resp'.caller = c
           /\ login_required_api(c) = 0
           /\ Len(q) < MIN_LENGTH
           /\ change_password("w1", c, p, q)) =>
              /\ users' = users
              /\ resp'.status = 400
      ]_vars

\* C13 witness: a user who verified the current password has been answered
\* 400 with the length message.
C13_Witness ==
    /\ resp.route = "change_password"
    /\ resp.status = 400
    /\ resp.body = "Password must be at least 12 characters"
    /\ ~users[resp.caller].temp_password

\* C14: when the approval e-mail is not sent, the approval still marks the
\* request approved next to the user row created for it, and answers 200
\* with success true and the temporary password of that row in the body;
\* when the e-mail is sent the body is success and a message, without the
\* temporary password.
C14_MailFailureReturnsPassword ==
    [][\A w \in Workers :
          hs[w].pc = "approve_account_request" =>
             /\ approve_update(w, FALSE) =>
                   /\ requests'[hs[w].id].status = "approved"
                   /\ "temp_password" \in DOMAIN resp'.body
                   /\ \E u \in 1..Len(users') :
                         /\ users'[u].email = hs[w].email
                         /\ users'[u].status = "active"
                         /\ users'[u].password_hash =
                               generate_password_hash(resp'.body.temp_password)
                   /\ resp'.status = 200
                   /\ resp'.body.success
                   /\ resp'.body.temp_password \in generate_temp_password
                   /\ resp'.mails = {}
             /\ approve_update(w, TRUE) =>
                   /\ requests'[hs[w].id].status = "approved"
                   /\ resp'.status = 200
                   /\ resp'.body.success
                   /\ DOMAIN resp'.body = {"success", "message"}
                   /\ resp'.mails = {<<"account_approved", hs[w].email>>}
      ]_vars

\* C14 witness: an approval has been answered 200 with the temporary
\* password in the body, no e-mail having been sent, and the user exists.
C14_Witness ==
    /\ resp.route = "approve_request"
    /\ resp.status = 200
    /\ resp.mails = {}
    /\ "temp_password" \in DOMAIN resp.body
    /\ \E i \in 1..Len(requests), u \in 1..Len(users) :
          /\ requests[i].status = "approved"
          /\ users[u].email = requests[i].email

\* C15: an administrator's disable request for their own id is answered
\* 400 and changes no user row; and whenever a step sets a user's status to
\* 'disabled', it is a disable request made by somebody else.
C15_NoSelfDisable ==
    [][/\ \A c \in sessions :
             (/\ hs["w1"] = Idle
              /\ admin_required(c) = 0
              /\ resp'.route = "disable_user"
              /\ resp'.caller = c
              /\ disable_user("w1", c, c)) =>
                 /\ resp'.status = 400
                 /\ users' = users
       /\ \A u \in 1..Len(users) :
             (users[u].status # "disabled" /\ users'[u].status = "disabled")
                => /\ resp'.route = "disable_user"
                   /\ resp'.caller # u
      ]_vars

\* C15 witness: the administrator has been answered 400 by the disable
\* route while another user's account is disabled.
C15_Witness ==
    /\ resp.route = "disable_user"
    /\ resp.status = 400
    /\ users[resp.caller].status = "active"
    /\ \E u \in 1..Len(users) : users[u].status = "disabled"

C18_ProcessedOnce ==
    [][\A i \in 1..Len(requests) :
          /\ requests[i].status # "pending" =>
                requests'[i].status = requests[i].status
          /\ (requests[i].status # "rejected" /\
              requests'[i].status = "rejected") =>
                \A w \in Workers :
                   ~(hs[w].pc = "approve_account_request" /\ hs[w].id = i)
      ]_vars

(***************************************************************************)
(* Claims about concurrent /transcribe requests and the audio file.        *)
(***************************************************************************)
\* C19: a handler whose lookup found nothing goes through the whole pipeline
\* and its save step inserts a row with is_duplicate 0 for its URL, also
\* when another handler has stored an original for the same URL since the
\* lookup; nothing makes the second handler wait, copy or give up.
C19_ConcurrentSaveInsertsOriginal ==
    [][\A w \in Workers :
          (hs[w].pc = "save_transcript" /\ transcribe_save(w, TRUE)) =>
             /\ hs[w].calls.stt >= 1
             /\ hs[w].calls.llm = 2
             /\ Len(transcripts') = Len(transcripts) + 1
             /\ transcripts'[Len(transcripts')].youtube_url = hs[w].url
             /\ transcripts'[Len(transcripts')].is_duplicate = 0
             /\ transcripts'[Len(transcripts')].user_id = hs[w].user
             /\ resp'.status = 200
             /\ ~resp'.body.duplicated
      ]_vars

\* C19 witness: two requests for one URL have both been answered with a
\* newly stored transcript: the table holds two rows for the URL, both with
\* is_duplicate 0.
C19_Witness ==
    /\ resp.route = "transcribe"
    /\ resp.status = 200
    /\ ~resp.body.duplicated
    /\ \E i, j \in 1..Len(transcripts) :
          /\ i < j
          /\ j = resp.body.id
          /\ transcripts[i].youtube_url = transcripts[j].youtube_url
          /\ transcripts[i].is_duplicate = 0
          /\ transcripts[j].is_duplicate = 0

\* The handler positions reached once extract_audio has returned a path.
AfterDownload ==
    {"transcribe_audio", "transcribe_chunk", "clean_transcript",
     "format_transcript", "save_transcript"}

\* C20: whenever a /transcribe handler that holds a downloaded audio file
\* returns, with 200 or with 500, the file is not on disk after the step
\* that returns.
C20_AudioFileRemoved ==
    [][\A w \in Workers :
          (hs[w].pc \in AfterDownload /\ hs'[w] = Idle) =>
             /\ resp'.route = "transcribe"
             /\ resp'.status \in {200, 500}
             /\ hs[w].audio_file # None
             /\ hs[w].audio_file \notin files'
      ]_vars

\* C20 witness: a request has been answered 500 because the INSERT failed,
\* after the whole pipeline ran, and the temp directory is empty.
C20_Witness ==
    /\ resp.route = "transcribe"
    /\ resp.status = 500
    /\ resp.body.error = <<"database is locked">>
    /\ files = {}

(***************************************************************************)
(* Claims about transcribe_audio and the chunks.                           *)
(***************************************************************************)
SizeLimitBytes == MAX_FILE_SIZE_MB * 1024 * 1024

\* C21: transcribe_audio on a file that is on disk writes chunk files, and
\* goes on to the loop over them without a speech-to-text call of its own,
\* exactly when the file has more than 24 * 1024 * 1024 bytes; a file of
\* that size or less is sent whole, in the one call the handler makes, and
\* no chunk file is written.
C21_SplitOnlyAboveLimit ==
    [][\A ok \in BOOLEAN :
          (/\ hs["w1"].pc = "transcribe_audio"
           /\ hs["w1"].audio_file \in files
           /\ transcribe_audio("w1", ok)) =>
              LET size == AudioSize(hs["w1"].audio_file[1])
                  split == hs'["w1"].pc = "transcribe_chunk"
              IN  /\ split <=> size > SizeLimitBytes
                  /\ split =>
                        /\ hs'["w1"].chunk_files =
                              split_audio(hs["w1"].audio_file, CHUNK_LENGTH_MS)
                        /\ \A i \in 1..Len(hs'["w1"].chunk_files) :
                              hs'["w1"].chunk_files[i] \in files'
                        /\ hs'["w1"].calls.stt = 0
                  /\ ~split =>
                        /\ files' \subseteq files
                        /\ ok => /\ hs'["w1"].pc = "clean_transcript"
                                 /\ hs'["w1"].calls.stt = 1
                                 /\ hs'["w1"].raw_transcript =
                                       SttText(hs["w1"].audio_file)
                                 /\ hs'["w1"].chunk_files = <<>>
      ]_vars

\* C21 witness: a file of exactly 24 MB has been transcribed in one call,
\* and no chunk file is on disk.
C21_Witness ==
    /\ hs["w1"].pc = "clean_transcript"
    /\ AudioSize(hs["w1"].audio_file[1]) = SizeLimitBytes
    /\ hs["w1"].calls.stt = 1
    /\ hs["w1"].raw_transcript = SttText(hs["w1"].audio_file)
    /\ files = {hs["w1"].audio_file}

\* ceil(l / c) for c > 0: the least n with n * c >= l.
Ceil(l, c) == CHOOSE n \in 0..l : n * c >= l /\ (n = 0 \/ (n - 1) * c < l)

\* C22: for an audio of length L and a chunk length C > 0, split_audio
\* returns ceil(L / C) chunks; chunk i (from 0) is [i*C, min((i+1)*C, L));
\* the chunks are in order, each starts where the one before ends, the
\* first starts at 0 and the last ends at L; all but the last have length
\* C and the last has a length in 1..C.
C22_SplitAudioChunks ==
    hs["w1"].pc = "split_audio_returned" =>
       LET L == hs["w1"].total_length_ms
           C == hs["w1"].chunk_length_ms
           chunks == hs["w1"].chunks
           n == Len(chunks)
       IN  /\ n = Ceil(L, C)
           /\ \A k \in 1..n :
                 /\ chunks[k].start_ms = (k - 1) * C
                 /\ chunks[k].end_ms = Min(k * C, L)
                 /\ k < n => chunks[k].end_ms - chunks[k].start_ms = C
                 /\ k < n => chunks[k + 1].start_ms = chunks[k].end_ms
           /\ n > 0 =>
                 /\ chunks[1].start_ms = 0
                 /\ chunks[n].end_ms = L
                 /\ chunks[n].end_ms - chunks[n].start_ms \in 1..C

\* C22 witness: an audio whose length is not a multiple of the chunk length
\* has been split into three chunks, the last one shorter.
C22_Witness ==
    /\ hs["w1"].pc = "split_audio_returned"
    /\ Len(hs["w1"].chunks) = 3
    /\ hs["w1"].chunks[3].end_ms - hs["w1"].chunks[3].start_ms
          < hs["w1"].chunk_length_ms

\* C23: each turn of the loop over the chunks makes one speech-to-text call,
\* on the chunk at the loop index, removes that chunk's file and only then
\* moves to the next index; the texts are collected in index order, and
\* after the last chunk the transcript is those texts joined with single
\* spaces.
C23_ChunksInOrder ==
    [][(/\ hs["w1"].pc = "transcribe_chunk"
        /\ hs["w1"].chunk_files[hs["w1"].i] \in files
        /\ transcribe_chunk("w1", TRUE)) =>
          LET h == hs["w1"]
              g == hs'["w1"]
              n == Len(h.chunk_files)
          IN  /\ h.calls.stt = h.i - 1
              /\ Len(h.transcripts) = h.i - 1
              /\ g.calls.stt = h.i
              /\ g.transcripts =
                    [k \in 1..h.i |-> SttText(h.chunk_files[k])]
              /\ h.chunk_files[h.i] \notin files'
              /\ h.i < n => g.pc = "transcribe_chunk" /\ g.i = h.i + 1
              /\ h.i = n =>
                    /\ g.pc = "clean_transcript"
                    /\ g.calls.stt = n
                    /\ Len(g.raw_transcript) = 2 * n + (n - 1)
                    /\ \A k \in 1..n :
                          /\ g.raw_transcript[3 * k - 2] = "stt"
                          /\ g.raw_transcript[3 * k - 1] = h.chunk_files[k]
                          /\ k < n => g.raw_transcript[3 * k] = " "
      ]_vars

\* C23 witness: both chunks of the long video have been transcribed, two
\* calls were made, and the transcript is the two texts with a space
\* between them.
C23_Witness ==
    /\ hs["w1"].pc = "clean_transcript"
    /\ Len(hs["w1"].chunk_files) = 2
    /\ hs["w1"].calls.stt = 2
    /\ hs["w1"].raw_transcript =
          <<"stt", ChunkPath("long", 0), " ", "stt", ChunkPath("long", 1)>>

\* C24: when the speech-to-text call for a chunk fails, the handler stops
\* there: it makes no further call (it is idle after the step, having made
\* the calls for the chunks before and none after), stores nothing, and
\* answers 500 with a message that begins 'Transcription failed:' and
\* carries no text of the chunks already transcribed.
C24_ChunkFailureAborts ==
    [][(/\ hs["w1"].pc = "transcribe_chunk"
        /\ hs["w1"].chunk_files[hs["w1"].i] \in files
        /\ transcribe_chunk("w1", FALSE)) =>
          /\ hs'["w1"] = Idle
          /\ hs["w1"].calls.stt = hs["w1"].i - 1
          /\ transcripts' = transcripts
          /\ resp'.route = "transcribe"
          /\ resp'.status = 500
          /\ DOMAIN resp'.body = {"error"}
          /\ resp'.body.error[1] = "Transcription failed: "
          /\ \A k \in 1..Len(resp'.body.error) :
                resp'.body.error[k] # "stt"
      ]_vars

\* C24 witness: the call for the second chunk has failed after the first
\* chunk was transcribed (its file is gone, the second one's is not), and
\* the request has been answered 500.
C24_Witness ==
    /\ resp.route = "transcribe"
    /\ resp.status = 500
    /\ resp.body.error = <<"Transcription failed: ", "API error">>
    /\ ChunkPath("long", 0) \notin files
    /\ ChunkPath("long", 1) \in files
    /\ hs["w1"] = Idle

\* C28: when the loop over the chunks ends, by finishing or by a failed
\* call, none of the chunk files split_audio wrote is left on disk.
C28_ChunkFilesRemoved ==
    [][(hs["w1"].pc = "transcribe_chunk" /\ hs'["w1"].pc # "transcribe_chunk")
          => \A k \in 1..Len(hs["w1"].chunk_files) :
                hs["w1"].chunk_files[k] \notin files'
      ]_vars

\* C27: while a handler is between its extraction and the end of its
\* transcription, with its audio file on disk, no step of another handler
\* removes that file.
C27_AudioFileKeptForOwner ==
    [][\A w \in Workers :
          (/\ hs[w].pc \in {"transcribe_audio", "transcribe_chunk"}
           /\ hs'[w] = hs[w]
           /\ hs[w].audio_file \in files)
             => hs[w].audio_file \in files'
      ]_vars

(***************************************************************************)
(* Claims about disabled accounts and the administrator.                   *)
(***************************************************************************)
\* The routes behind login_required_api or admin_required.
ProtectedRoutes ==
    GuardedRoutes \cup {"change_password", "approve_request",
                        "reject_request", "disable_user", "enable_user"}

ActiveAdmins ==
    {u \in 1..Len(users) :
        users[u].role = "admin" /\ users[u].status = "active"}

C29_CurrentPasswordCheckedUnlessTemp ==
    [][(/\ hs["w1"] = Idle
        /\ resp'.route = "change_password"
        /\ resp'.caller \in sessions) =>
          \A p \in CurrentPasswordInputs \ {<<>>},
             q \in NewPasswordInputs \ {<<>>} :
             LET c == resp'.caller
                 wrong == ~check_password(users[c].password_hash, p)
             IN (/\ users[c].status = "active"
                 /\ change_password("w1", c, p, q)) =>
                   /\ (resp'.status = 401) <=>
                          (~users[c].temp_password /\ wrong)
                   /\ (resp'.status = 401) => users' = users
                   /\ (resp'.status # 401) =>
                          (resp'.status = 200) <=> (Validate(q) = "ok")
                   /\ (resp'.status = 200) =>
                          /\ users'[c].password_hash =
                                 generate_password_hash(q)
                          /\ ~users'[c].temp_password
                          /\ \A u \in 1..Len(users) :
                                 u # c => users'[u] = users[u]
                          /\ Len(users') = Len(users)
      ]_vars

\* C29 witness: a caller whose temp_password flag was set has just changed
\* the password; the row holds the new hash and the flag is cleared.  The
\* current passwords the model offers are none of them the stored one once
\* the stored one is PwNew, and the stored temporary password is PwTemp, so
\* the witness asks for a change by a user other than the administrator.
C29_Witness ==
    /\ resp.route = "change_password"
    /\ resp.status = 200
    /\ resp.caller \in sessions
    /\ users[resp.caller].role = "user"
    /\ users[resp.caller].password_hash = generate_password_hash(PwNew)
    /\ ~users[resp.caller].temp_password

\* C30: every password generate_temp_password returns for its default
\* length is accepted by PasswordValidator.validate: it has 16, so at least
\* 12, characters, and holds an uppercase letter, a lowercase letter, a
\* digit and a special character of the validator's set.
C30_TempPasswordValid ==
    hs["w1"].pc = "generate_temp_password_returned" =>
        /\ Validate(hs["w1"].password) = "ok"
        /\ Len(hs["w1"].password) = DefaultLength
        /\ Len(hs["w1"].password) >= MIN_LENGTH
        /\ HasChar(hs["w1"].password, UpperChars)
        /\ HasChar(hs["w1"].password, LowerChars)
        /\ HasChar(hs["w1"].password, DigitChars)
        /\ HasChar(hs["w1"].password, ValidatorSpecialChars)

\* C30 witness: a returned password whose only special character is the
\* one drawn for the special class, moved by the shuffle.
C30_Witness ==
    /\ hs["w1"].pc = "generate_temp_password_returned"
    /\ Cardinality({i \in 1..Len(hs["w1"].password) :
                       hs["w1"].password[i] \in ValidatorSpecialChars}) = 1
    /\ hs["w1"].password[4] \notin ValidatorSpecialChars

====
